---- MODULE Spec2Model ----
(***************************************************************************)
(* Blog generation workflow: generate_blog (api/routes.py) invokes the     *)
(* compiled LangGraph graph START -> title_agent -> content_agent ->       *)
(* should_translate -> (translation_agent | END).  Text is modelled as a   *)
(* sequence of one-character strings, so that strip, split and the title   *)
(* parser are computed character by character as Python computes them.    *)
(***************************************************************************)
EXTENDS Integers, Sequences, FiniteSets, TLC

\* ------------------------------------------------------------------ bounds
MaxGenLen == 4
MaxSelLen == 2
MaxContentLen == 3
MaxTransLen == 2
MaxLangLen == 1

\* requests the server handles at the same time
MaxRuns == 2

\* ------------------------------------------------------------ Python text
\* Python's None; a value no text (sequence of characters) is equal to.
None == <<"<None>">>

\* bool(x) for an Optional[str]: None and "" are falsy.
Truthy(x) == x # None /\ x # <<>>

Whitespace == {" ", "\n"}

Digits == {"0", "1", "2", "3", "4", "5", "6", "7", "8", "9"}

IsSpace(c) == c \in Whitespace

IsDigit(c) == c \in Digits

MinOf(S) == CHOOSE m \in S : \A n \in S : m <= n

\* index of the first non-whitespace character of s at or after i, else Len(s) + 1
RECURSIVE FirstNonSpace(_, _)
FirstNonSpace(s, i) ==
    IF i > Len(s) \/ ~IsSpace(s[i]) THEN i ELSE FirstNonSpace(s, i + 1)

\* index of the last non-whitespace character of s at or before i, else 0
RECURSIVE LastNonSpace(_, _)
LastNonSpace(s, i) ==
    IF i = 0 \/ ~IsSpace(s[i]) THEN i ELSE LastNonSpace(s, i - 1)

\* str.strip(): drop leading and trailing whitespace.
PyStrip(s) == SubSeq(s, FirstNonSpace(s, 1), LastNonSpace(s, Len(s)))

\* position of the first occurrence of character c in s, 0 when absent
FindChar(s, c) ==
    LET hits == {i \in 1..Len(s) : s[i] = c}
    IN  IF hits = {} THEN 0 ELSE MinOf(hits)

\* str.split(sep, 1)[-1]: the text after the first sep, or s when sep is absent
AfterFirst(s, sep) ==
    LET p == FindChar(s, sep)
    IN  IF p = 0 THEN s ELSE SubSeq(s, p + 1, Len(s))

\* str.split(sep): the pieces between occurrences of the character sep
RECURSIVE SplitOn(_, _)
SplitOn(s, sep) ==
    LET p == FindChar(s, sep)
    IN  IF p = 0 THEN <<s>>
        ELSE <<SubSeq(s, 1, p - 1)>> \o SplitOn(SubSeq(s, p + 1, Len(s)), sep)

\* str.split(): the maximal runs of non-whitespace characters
RECURSIVE SplitWs(_)
SplitWs(s) ==
    LET t == PyStrip(s)
        ws == {i \in 1..Len(t) : IsSpace(t[i])}
    IN  IF t = <<>> THEN <<>>
        ELSE IF ws = {} THEN <<t>>
        ELSE <<SubSeq(t, 1, MinOf(ws) - 1)>> \o SplitWs(SubSeq(t, MinOf(ws), Len(t)))

\* all texts over alphabet A of length at most n
StringsUpTo(A, n) == UNION {[1..k -> A] : k \in 0..n}

\* ------------------------------------------------------------- title_agent
\* variant: no "if title:" check, an empty title is appended
TitleOfLineKeepsEmpty(rawline) ==
    LET line == PyStrip(rawline)
        title == PyStrip(AfterFirst(AfterFirst(line, "."), ")"))
    IN  IF line # <<>> /\ IsDigit(line[1]) THEN <<title>> ELSE <<>>

\* the candidate a response line contributes: <<title>> or <<>>
TitleOfLine(rawline) ==
    LET line == PyStrip(rawline)
        title == PyStrip(AfterFirst(AfterFirst(line, "."), ")"))
    IN  IF line # <<>> /\ IsDigit(line[1]) /\ title # <<>> THEN <<title>> ELSE <<>>

RECURSIVE TitlesOfLines(_)
TitlesOfLines(lines) ==
    IF lines = <<>> THEN <<>>
    ELSE TitleOfLine(Head(lines)) \o TitlesOfLines(Tail(lines))

\* the parse loop over generation_response.content
ParseTitles(content) == TitlesOfLines(SplitOn(PyStrip(content), "\n"))

CompleteGuidePrefix ==
    <<"C","o","m","p","l","e","t","e"," ","G","u","i","d","e"," ","t","o"," ">>

\* variant: the topic is not substituted
FallbackTitleNoTopic(topic) == CompleteGuidePrefix

FallbackTitle(topic) == CompleteGuidePrefix \o topic

\* titles after the parse loop and the "if not titles" fallback
BrainstormTitles(content, topic) ==
    IF ParseTitles(content) = <<>> THEN <<FallbackTitle(topic)>>
    ELSE ParseTitles(content)

InSeq(x, seq) == \E i \in 1..Len(seq) : seq[i] = x

\* variant: the response is compared without strip()
SelectTitleNoStrip(content, candidates) ==
    IF ~InSeq(content, candidates) THEN candidates[1]
    ELSE content

\* variant: the selection is returned without validating it
SelectTitleUnchecked(content, candidates) == PyStrip(content)

\* selected_title after validation against the candidates
SelectTitle(content, candidates) ==
    IF ~InSeq(PyStrip(content), candidates) THEN candidates[1]
    ELSE PyStrip(content)

TitlePatch(candidates, content) ==
    [brainstormed_titles |-> candidates,
     selected_title |-> SelectTitle(content, candidates)]

\* ----------------------------------------------------------- content_agent
\* variant: split(" ") instead of split()
WordCountSplitSpace(blog_content) == Len(SplitOn(blog_content, " "))

WordCount(blog_content) == Len(SplitWs(blog_content))

\* variant: final_content is not pre-populated
ContentPatchNoFinal(content) ==
    [blog_content |-> PyStrip(content),
     word_count |-> WordCount(PyStrip(content))]

ContentPatch(content) ==
    [blog_content |-> PyStrip(content),
     word_count |-> WordCount(PyStrip(content)),
     final_content |-> PyStrip(content)]

\* ------------------------------------------------------- translation_agent
\* variant: the step always returns at the safety check
TranslationGuardAlways(st) == TRUE

\* the "if not target_language" safety check
TranslationGuard(st) == ~Truthy(st.target_language)

\* variant: the guard hands final_content back as it found it
GuardPatchKeepsFinal(st) ==
    [translated_content |-> None, final_content |-> st.final_content]

GuardPatch(st) ==
    [translated_content |-> None, final_content |-> st.blog_content]

\* variant: final_content is not overwritten
TranslationPatchNoFinal(content) ==
    [translated_content |-> PyStrip(content)]

TranslationPatch(content) ==
    [translated_content |-> PyStrip(content),
     final_content |-> PyStrip(content)]

\* ----------------------------------------------------------------- prompts
\* An instruction is the template's name with the values formatted into it.
TitleTranscriptLimit == 2000

ContentTranscriptLimit == 5000

\* variant: no slice, the whole text is embedded
TakeAll(s, n) == s

\* s[:n]
Take(s, n) == SubSeq(s, 1, IF Len(s) < n THEN Len(s) ELSE n)

\* title_agent's transcript_section: "SOURCE TRANSCRIPT:\n{transcript[:2000]}..."
TitleTranscriptSection(transcript) ==
    IF Truthy(transcript)
    THEN [variant |-> "SOURCE TRANSCRIPT",
          transcript |-> Take(transcript, TitleTranscriptLimit)]
    ELSE [variant |-> "No transcript provided", transcript |-> <<>>]

TitleGenerationPrompt(st) ==
    [template |-> "TITLE_GENERATION_PROMPT",
     topic |-> st.topic,
     transcript_section |-> TitleTranscriptSection(st.transcript),
     style |-> st.style]

\* titles_formatted: "{i+1}. {t}" per candidate
TitleSelectionPrompt(candidates, st) ==
    [template |-> "TITLE_SELECTION_PROMPT",
     titles |-> [i \in 1..Len(candidates) |-> <<i, candidates[i]>>],
     topic |-> st.topic,
     style |-> st.style]

\* content_agent's transcript_section
ContentTranscriptSection(transcript) ==
    IF Truthy(transcript) /\ Truthy(PyStrip(transcript))
    THEN [variant |-> "CONTENT_WITH_TRANSCRIPT_SECTION",
          transcript |-> Take(transcript, ContentTranscriptLimit)]
    ELSE [variant |-> "CONTENT_NO_TRANSCRIPT_SECTION", transcript |-> <<>>]

ContentPrompt(st) ==
    [template |-> "CONTENT_GENERATION_PROMPT",
     title |-> st.selected_title,
     topic |-> st.topic,
     style |-> st.style,
     transcript_section |-> ContentTranscriptSection(st.transcript)]

TranslationPrompt(st) ==
    [template |-> "TRANSLATION_PROMPT",
     target_language |-> st.target_language,
     content |-> st.blog_content]

NoPrompt == [template |-> "none"]

\* ------------------------------------------------------------------ router
\* variant: the router always answers "translate"
should_translate_Always(st) == "translate"

\* variant: truthiness only, no strip()
should_translate_NoStrip(st) ==
    IF Truthy(st.target_language) THEN "translate" ELSE "end"

\* variant: "is not None" instead of truthiness
should_translate_NotNone(st) ==
    IF st.target_language # None THEN "translate" ELSE "end"

should_translate(st) ==
    IF Truthy(st.target_language) /\ Truthy(PyStrip(st.target_language))
    THEN "translate" ELSE "end"

\* variant: both labels mapped to translation_agent
RouteTargetAlwaysTranslates(label) == "translation_agent"

\* the path map of add_conditional_edges
RouteTarget(label) ==
    IF label = "translate" THEN "translation_agent" ELSE "END"

\* --------------------------------------------------------------- the graph
\* variant: the patch replaces the state, a field it lacks falls back to empty
MergeReplaces(st, patch) ==
    [f \in DOMAIN st |->
        IF f \in DOMAIN patch THEN patch[f]
        ELSE IF f \in {"word_count", "generation_time"} THEN 0
        ELSE IF f \in {"transcript", "target_language", "translated_content"}
             THEN None
        ELSE IF f = "style" THEN "professional"
        ELSE <<>>]

\* LangGraph's state update: the patch's fields replace the state's
Merge(st, patch) ==
    [f \in DOMAIN st |-> IF f \in DOMAIN patch THEN patch[f] ELSE st[f]]

\* ------------------------------------------------------------------ inputs
Topics == {<<"a","b","c">>, <<"a","b","c","d">>}

Transcripts == {None, <<"s">>}

Styles == {"professional", "casual"}

Languages == {None} \cup StringsUpTo({" ", "e"}, MaxLangLen)

\* two request profiles (a bare topic with the defaults; a topic with a
\* transcript and a style), each with every target_language
Requests ==
    {r \in [topic : Topics, transcript : Transcripts,
            target_language : Languages, style : Styles] :
        /\ (r.transcript = None) <=> (r.style = "professional")
        /\ (r.transcript = None) <=> (Len(r.topic) = 3)}

\* what the model may answer to each call
GenResponses == StringsUpTo({"1", ".", ")", "a", " ", "\n"}, MaxGenLen)

SelResponses ==
    StringsUpTo({"1", "a", " "}, MaxSelLen) \cup {FallbackTitle(t) : t \in Topics}

ContentResponses == StringsUpTo({"w", " ", "\n"}, MaxContentLen)

TransResponses == StringsUpTo({"w", " "}, MaxTransLen)

\* ------------------------------------------------------------------- state
VARIABLES
    pc,             \* where the request handler is
    request,        \* the validated BlogGenerationRequest
    state,          \* the BlogState instance the graph owns
    titles,         \* title_agent's local list between its two calls
    used_fallback,  \* title_agent took the "if not titles" branch
    trans_response, \* raw text the translation call returned (None: no call)
    llm_calls,      \* number of llm.invoke calls issued
    trace,          \* steps and routing decisions, in the order they began
    response,       \* what generate_blog returned or raised
    prompt,         \* the instruction passed to the latest llm.invoke
    failed_at,      \* the call that raised ("none": no call raised)
    llm,            \* answers preset in a mocked client, by call (none: hosted)
    prompts,        \* the instructions passed to llm.invoke, in order
    cache,          \* get_workflow's lru_cache: 0 (empty) or a graph instance
    created,        \* number of create_workflow executions
    runs,           \* the requests the server is handling, by request id
    cells           \* the state instances workflow.invoke works on, by cell

vars == <<pc, request, state, titles, used_fallback, trans_response,
          llm_calls, trace, response, prompt, failed_at,
          llm, prompts, cache, created, runs, cells>>

\* the model client and the record of the calls made to it
calls == <<llm, prompts>>

\* the hosted model: no answer is preset
NoMock == <<>>

\* what llm.invoke may return to the given call: the preset answer of a mocked
\* client, any of the texts otherwise
LlmAnswers(call, texts) ==
    IF call \in DOMAIN llm THEN {llm[call]} ELSE texts

\* what the handlers of concurrent requests work on
server == <<cache, created, runs, cells>>

RunIds == 1..MaxRuns

\* initial_state of generate_blog
InitialState(req) ==
    [topic |-> req.topic,
     transcript |-> req.transcript,
     target_language |-> req.target_language,
     style |-> req.style,
     brainstormed_titles |-> <<>>,
     selected_title |-> <<>>,
     blog_content |-> <<>>,
     translated_content |-> None,
     final_content |-> <<>>,
     word_count |-> 0,
     generation_time |-> 0]

NoResponse == [kind |-> "none"]

NoRequest ==
    [topic |-> None, transcript |-> None, target_language |-> None, style |-> ""]

\* a request id no request has arrived for
IdleRun ==
    [pc |-> "idle", request |-> NoRequest, workflow |-> 0, titles |-> <<>>,
     log |-> <<>>, response |-> NoResponse]

\* the server after start-up: nothing cached, no request yet
ServerStarted ==
    /\ cache = 0
    /\ created = 0
    /\ runs = [id \in RunIds |-> IdleRun]
    /\ cells = <<>>

Init ==
    /\ request \in Requests
    /\ pc = "START"
    /\ state = InitialState(request)
    /\ titles = <<>>
    /\ used_fallback = FALSE
    /\ trans_response = None
    /\ llm_calls = 0
    /\ trace = <<>>
    /\ response = NoResponse
    /\ prompt = NoPrompt
    /\ failed_at = "none"
    /\ llm = NoMock
    /\ prompts = <<>>
    /\ ServerStarted

\* variant: translation_agent wired back to title_agent
EdgeCycle(node) ==
    CASE node = "START" -> "title_agent"
      [] node = "title_agent" -> "content_agent"
      [] node = "translation_agent" -> "title_agent"

\* variant: START wired to content_agent
EdgeContentFirst(node) ==
    CASE node = "START" -> "content_agent"
      [] node = "title_agent" -> "content_agent"
      [] node = "translation_agent" -> "END"

\* variant: title_agent wired straight to END
EdgeSkipsContent(node) ==
    CASE node = "START" -> "title_agent"
      [] node = "title_agent" -> "END"
      [] node = "translation_agent" -> "END"

\* the unconditional edges added by add_edge
Edge(node) ==
    CASE node = "START" -> "title_agent"
      [] node = "title_agent" -> "content_agent"
      [] node = "translation_agent" -> "END"

\* generate_blog calls workflow.invoke(initial_state)
Invoke ==
    /\ pc = "START"
    /\ pc' = Edge("START")
    /\ UNCHANGED <<request, state, titles, used_fallback, trans_response,
                   llm_calls, trace, response, prompt, failed_at>>
    /\ UNCHANGED server
    /\ UNCHANGED calls

\* title_agent begins and issues the generation call
EnterTitleAgent ==
    /\ pc = "title_agent"
    /\ pc' = "title_generation"
    /\ trace' = Append(trace, "title_agent")
    /\ prompt' = TitleGenerationPrompt(state)
    /\ llm_calls' = llm_calls + 1
    /\ UNCHANGED <<request, state, titles, used_fallback, trans_response,
                   response, failed_at>>
    /\ UNCHANGED server
    /\ prompts' = Append(prompts, prompt')
    /\ UNCHANGED llm

\* the generation call returns; parse, fall back, issue the selection call
TitleGeneration ==
    /\ pc = "title_generation"
    /\ \E content \in LlmAnswers("generation", GenResponses) :
         /\ titles' = BrainstormTitles(content, state.topic)
         /\ used_fallback' = (ParseTitles(content) = <<>>)
    /\ prompt' = TitleSelectionPrompt(titles', state)
    /\ llm_calls' = llm_calls + 1
    /\ pc' = "title_selection"
    /\ UNCHANGED <<request, state, trans_response, trace, response, failed_at>>
    /\ UNCHANGED server
    /\ prompts' = Append(prompts, prompt')
    /\ UNCHANGED llm

\* the selection call returns; title_agent's patch is merged
TitleSelection ==
    /\ pc = "title_selection"
    /\ \E content \in LlmAnswers("selection", SelResponses) :
         /\ state' = Merge(state, TitlePatch(titles, content))
    /\ titles' = <<>>
    /\ trace' = Append(trace, "title_agent:merged")
    /\ pc' = Edge("title_agent")
    /\ UNCHANGED <<request, used_fallback, trans_response, llm_calls, response,
                   prompt, failed_at>>
    /\ UNCHANGED server
    /\ UNCHANGED prompts
    /\ UNCHANGED llm

\* content_agent begins and issues its call
EnterContentAgent ==
    /\ pc = "content_agent"
    /\ pc' = "content_generation"
    /\ trace' = Append(trace, "content_agent")
    /\ prompt' = ContentPrompt(state)
    /\ llm_calls' = llm_calls + 1
    /\ UNCHANGED <<request, state, titles, used_fallback, trans_response,
                   response, failed_at>>
    /\ UNCHANGED server
    /\ prompts' = Append(prompts, prompt')
    /\ UNCHANGED llm

\* the content call returns; content_agent's patch is merged
ContentGeneration ==
    /\ pc = "content_generation"
    /\ \E content \in LlmAnswers("content", ContentResponses) :
         /\ state' = Merge(state, ContentPatch(content))
    /\ trace' = Append(trace, "content_agent:merged")
    /\ pc' = "should_translate"
    /\ UNCHANGED <<request, titles, used_fallback, trans_response, llm_calls,
                   response, prompt, failed_at>>
    /\ UNCHANGED server
    /\ UNCHANGED prompts
    /\ UNCHANGED llm

\* the conditional edge: should_translate picks translation_agent or END
Route ==
    /\ pc = "should_translate"
    /\ trace' = Append(trace, should_translate(state))
    /\ pc' = RouteTarget(should_translate(state))
    /\ UNCHANGED <<request, state, titles, used_fallback, trans_response,
                   llm_calls, response, prompt, failed_at>>
    /\ UNCHANGED server
    /\ UNCHANGED calls

\* translation_agent begins: safety check, else issue the translation call
EnterTranslationAgent ==
    /\ pc = "translation_agent"
    /\ IF TranslationGuard(state)
       THEN /\ state' = Merge(state, GuardPatch(state))
            /\ trace' = trace \o <<"translation_agent", "translation_agent:merged">>
            /\ pc' = Edge("translation_agent")
            /\ UNCHANGED <<llm_calls, prompt, prompts>>
       ELSE /\ llm_calls' = llm_calls + 1
            /\ prompt' = TranslationPrompt(state)
            /\ prompts' = Append(prompts, prompt')
            /\ trace' = Append(trace, "translation_agent")
            /\ pc' = "translation"
            /\ UNCHANGED state
    /\ UNCHANGED <<request, titles, used_fallback, trans_response, response,
                   failed_at>>
    /\ UNCHANGED server
    /\ UNCHANGED llm

\* the translation call returns; translation_agent's patch is merged
Translation ==
    /\ pc = "translation"
    /\ \E content \in LlmAnswers("translation", TransResponses) :
         /\ state' = Merge(state, TranslationPatch(content))
         /\ trans_response' = content
    /\ trace' = Append(trace, "translation_agent:merged")
    /\ pc' = Edge("translation_agent")
    /\ UNCHANGED <<request, titles, used_fallback, llm_calls, response, prompt,
                   failed_at>>
    /\ UNCHANGED server
    /\ UNCHANGED prompts
    /\ UNCHANGED llm

\* variant: the failed call is issued again
AfterRaiseRetries(at) == at

\* variant: translation_agent swallows the exception and keeps the content
AfterRaiseKeepsContent(at) == IF at = "translation" THEN "END" ELSE "raised"

\* where control goes when the call awaited at `at` raises: no step and no
\* graph code catches it, so it reaches generate_blog's except clause
AfterRaise(at) == "raised"

\* llm.invoke raises inside a step: the exception leaves workflow.invoke
LlmRaises ==
    /\ pc \in {"title_generation", "title_selection", "content_generation",
               "translation"}
    /\ failed_at' = pc
    /\ pc' = AfterRaise(pc)
    /\ UNCHANGED <<request, state, titles, used_fallback, trans_response,
                   llm_calls, trace, response, prompt>>
    /\ UNCHANGED server
    /\ UNCHANGED calls

\* bool(result.get("translated_content"))
WasTranslated(result) == Truthy(result.translated_content)

\* variant: target_language is reported only for a translated post
BuildResponseEchoIfTranslated(result, req) ==
    [kind |-> "ok",
     title |-> result.selected_title,
     content |-> result.final_content,
     word_count |-> result.word_count,
     was_translated |-> WasTranslated(result),
     target_language |->
         IF WasTranslated(result) THEN req.target_language ELSE None,
     brainstormed_titles |-> result.brainstormed_titles]

\* BlogGenerationResponse built from the final state
BuildResponse(result, req) ==
    [kind |-> "ok",
     title |-> result.selected_title,
     content |-> result.final_content,
     word_count |-> result.word_count,
     was_translated |-> WasTranslated(result),
     target_language |-> req.target_language,
     brainstormed_titles |-> result.brainstormed_titles]

\* workflow.invoke returned: generate_blog returns the response
Respond ==
    /\ pc = "END"
    /\ response' = BuildResponse(state, request)
    /\ pc' = "responded"
    /\ UNCHANGED <<request, state, titles, used_fallback, trans_response,
                   llm_calls, trace, prompt, failed_at>>
    /\ UNCHANGED server
    /\ UNCHANGED calls

\* HTTPException raised by the except clause
ErrorResponse == [kind |-> "error", status_code |-> 500, error |-> "generation_failed"]

\* except Exception: generate_blog raises HTTPException(500)
GenerationFailed ==
    /\ pc = "raised"
    /\ response' = ErrorResponse
    /\ pc' = "failed"
    /\ UNCHANGED <<request, state, titles, used_fallback, trans_response,
                   llm_calls, trace, prompt, failed_at>>
    /\ UNCHANGED server
    /\ UNCHANGED calls

Next ==
    \/ Invoke
    \/ EnterTitleAgent
    \/ TitleGeneration
    \/ TitleSelection
    \/ EnterContentAgent
    \/ ContentGeneration
    \/ Route
    \/ EnterTranslationAgent
    \/ Translation
    \/ LlmRaises
    \/ Respond
    \/ GenerationFailed

Spec == Init /\ [][Next]_vars

\* ------------------------------------------------------------ properties
\* The properties state text facts on their own terms, not through the
\* operators the actions use.

\* x is present and has a non-whitespace character
NonBlank(x) == x # None /\ \E i \in 1..Len(x) : ~IsSpace(x[i])

\* t is s without its leading and trailing whitespace
IsTrimOf(t, s) ==
    \E i, j \in 0..Len(s) :
        /\ i + j <= Len(s)
        /\ t = SubSeq(s, i + 1, Len(s) - j)
        /\ \A k \in 1..i : IsSpace(s[k])
        /\ \A k \in (Len(s) - j + 1)..Len(s) : IsSpace(s[k])
        /\ (t # <<>> => ~IsSpace(t[1]) /\ ~IsSpace(t[Len(t)]))

\* number of whitespace-delimited tokens of s
TokenCount(s) ==
    Cardinality({i \in 1..Len(s) : ~IsSpace(s[i]) /\ (i = 1 \/ IsSpace(s[i - 1]))})

Count(seq, x) == Cardinality({i \in 1..Len(seq) : seq[i] = x})

IsPrefix(p, q) == Len(p) <= Len(q) /\ p = SubSeq(q, 1, Len(p))

\* the graph reached END (the terminal point), with or without the response built
AtEnd == pc \in {"END", "responded"}

TitleDone == InSeq("title_agent:merged", trace)

TranslationRan == InSeq("translation_agent", trace)

\* C1: with a non-blank target_language and no failed call, at the terminal
\* point the Translation step has run exactly once and final_content (and the
\* response's content) is the translation call's trimmed output.
C1_TranslationDecidesFinalContent ==
    (AtEnd /\ NonBlank(request.target_language)) =>
        /\ Count(trace, "translation_agent") = 1
        /\ trans_response # None
        /\ IsTrimOf(state.final_content, trans_response)
        /\ (pc = "responded" => IsTrimOf(response.content, trans_response))

C1_Witness ==
    /\ pc = "responded"
    /\ NonBlank(request.target_language)
    /\ response.content # state.blog_content
    /\ response.content # trans_response
    /\ response.content # <<>>

\* C2: with target_language None, empty or whitespace-only the Translation
\* step never runs, and at the terminal point final_content is blog_content;
\* the response has was_translated false and content equal to blog_content.
C2_BlankLanguageSkipsTranslation ==
    ~NonBlank(request.target_language) =>
        /\ ~TranslationRan
        /\ pc \notin {"translation_agent", "translation"}
        /\ (AtEnd => state.final_content = state.blog_content)
        /\ (pc = "responded" =>
               /\ response.was_translated = FALSE
               /\ response.content = state.blog_content)

C2_Witness ==
    /\ pc = "responded"
    /\ request.target_language = <<" ">>
    /\ response.content # <<>>
    /\ response.was_translated = FALSE

\* C3: at the terminal point final_content was written by a step: it is
\* blog_content when Translation did not run and translated_content when it did.
C3_FinalContentSet ==
    AtEnd =>
        /\ InSeq("content_agent:merged", trace)
        /\ state.final_content =
              (IF TranslationRan THEN state.translated_content
               ELSE state.blog_content)

C3_Witness ==
    /\ pc = "END"
    /\ ~TranslationRan
    /\ state.final_content # <<>>
    /\ state.translated_content = None

\* C4: the steps begin in the order Title, Content, Branch Decision,
\* Translation, each only after the previous step's patch was merged; the
\* Translation step begins only after the Branch Decision returned "translate".
FullSkipTrace ==
    <<"title_agent", "title_agent:merged", "content_agent",
      "content_agent:merged", "end">>

FullTranslateTrace ==
    <<"title_agent", "title_agent:merged", "content_agent",
      "content_agent:merged", "translate", "translation_agent",
      "translation_agent:merged">>

C4_StepsInOrder ==
    /\ IsPrefix(trace, FullSkipTrace) \/ IsPrefix(trace, FullTranslateTrace)
    /\ (InSeq("content_agent", trace) =>
           /\ state.brainstormed_titles # <<>>
           /\ state.selected_title # <<>>)
    /\ (pc \in {"content_agent", "content_generation"} =>
           state.blog_content = <<>> /\ state.final_content = <<>>)
    /\ (pc \in {"translation_agent", "translation"} =>
           state.final_content = state.blog_content)

C4_Witness == pc = "END" /\ trace = FullTranslateTrace

\* C5: no step begins twice; at the terminal point Title and Content have
\* each run exactly once and Translation at most once.
C5_EachStepOnce ==
    /\ \A step \in {"title_agent", "content_agent", "translation_agent"} :
          Count(trace, step) <= 1
    /\ (AtEnd =>
           /\ Count(trace, "title_agent") = 1
           /\ Count(trace, "title_agent:merged") = 1
           /\ Count(trace, "content_agent") = 1
           /\ Count(trace, "content_agent:merged") = 1)

C5_Witness ==
    /\ pc = "END"
    /\ Count(trace, "translation_agent") = 0
    /\ Count(trace, "title_agent") = 1
    /\ Count(trace, "content_agent") = 1

\* C6: should_translate returns "translate" exactly when target_language is
\* present and has a non-whitespace character and "end" otherwise (None, "",
\* whitespace-only); evaluating it changes no state field and issues no call.
C6_RouterLabel ==
    /\ [](/\ should_translate(state) =
               (IF NonBlank(state.target_language) THEN "translate" ELSE "end")
          /\ (InSeq("translate", trace) => NonBlank(state.target_language))
          /\ (InSeq("end", trace) => ~NonBlank(state.target_language)))
    /\ [][pc = "should_translate" =>
             (state' = state /\ llm_calls' = llm_calls)]_vars

C6_Witness ==
    /\ pc = "END"
    /\ InSeq("end", trace)
    /\ state.target_language # None
    /\ state.target_language # <<>>

\* C7: after the Title step selected_title is one of brainstormed_titles.
C7_SelectedIsCandidate ==
    TitleDone =>
        \E i \in 1..Len(state.brainstormed_titles) :
            state.brainstormed_titles[i] = state.selected_title

C7_Witness ==
    /\ TitleDone
    /\ Len(state.brainstormed_titles) >= 2
    /\ state.selected_title = state.brainstormed_titles[2]
    /\ state.selected_title # state.brainstormed_titles[1]

\* C8: when the parse yields no candidate, brainstormed_titles is exactly
\* <<"Complete Guide to " \o topic>> and selected_title is that entry; the
\* step completes (no error) whatever the selection call returns.
C8_FallbackTitle ==
    used_fallback =>
        /\ (pc = "title_selection" =>
               titles = <<CompleteGuidePrefix \o request.topic>>)
        /\ (TitleDone =>
               /\ state.brainstormed_titles = <<CompleteGuidePrefix \o request.topic>>
               /\ state.selected_title = CompleteGuidePrefix \o request.topic)
        /\ (pc = "responded" =>
               response.title = CompleteGuidePrefix \o request.topic)

C8_Witness ==
    /\ pc = "responded"
    /\ used_fallback
    /\ request.topic = <<"a", "b", "c", "d">>
    /\ Len(response.brainstormed_titles) = 1
    /\ Len(response.title) = 22

\* C9: at the terminal point word_count is the number of whitespace-delimited
\* tokens of blog_content, whether or not the Translation step ran.
C9_WordCount ==
    AtEnd =>
        /\ state.word_count = TokenCount(state.blog_content)
        /\ (pc = "responded" => response.word_count = TokenCount(state.blog_content))

C9_Witness ==
    /\ pc = "responded"
    /\ TranslationRan
    /\ response.word_count = 2
    /\ TokenCount(response.content) # 2

\* C10: the response's was_translated is true exactly when translated_content
\* is present (not None) in the final state; in particular it is true whenever
\* the Translation step ran on a non-blank target_language.
C10_WasTranslatedIffPresent ==
    pc = "responded" =>
        /\ response.was_translated = (state.translated_content # None)
        /\ (TranslationRan /\ NonBlank(request.target_language) =>
               response.was_translated = TRUE)

\* number of llm.invoke calls issued when the call awaited at `at` is pending
CallsIssuedBy(at) ==
    CASE at = "title_generation" -> 1
      [] at = "title_selection" -> 2
      [] at = "content_generation" -> 3
      [] at = "translation" -> 4

\* the steps begun and decisions taken when the call awaited at `at` is pending
TraceAt(at) ==
    CASE at = "title_generation" -> <<"title_agent">>
      [] at = "title_selection" -> <<"title_agent">>
      [] at = "content_generation" ->
            <<"title_agent", "title_agent:merged", "content_agent">>
      [] at = "translation" ->
            <<"title_agent", "title_agent:merged", "content_agent",
              "content_agent:merged", "translate", "translation_agent">>

\* C11: when a model call raises (either Title call, the Content call or the
\* Translation call) the run stops there: the call is not issued again, no
\* later call is issued, no later step begins, nothing more is merged and the
\* run never reaches the terminal point.
C11_FailureAbortsRun ==
    /\ [](failed_at # "none" =>
             /\ pc \in {"raised", "failed"}
             /\ llm_calls = CallsIssuedBy(failed_at)
             /\ trace = TraceAt(failed_at)
             /\ response.kind # "ok")
    /\ [][failed_at # "none" =>
             (llm_calls' = llm_calls /\ trace' = trace /\ state' = state
              /\ failed_at' = failed_at)]_vars

C11_Witness ==
    /\ pc = "failed"
    /\ failed_at = "title_selection"
    /\ llm_calls = 2
    /\ state.brainstormed_titles = <<>>

\* C12: a model-call failure in any step gives one error outcome, status 500
\* with error "generation_failed", the same whichever step failed, and never a
\* success response; a failed Translation call does not fall back to the
\* untranslated blog_content.
C12_SingleGenericError ==
    /\ [](/\ (failed_at # "none" =>
                 /\ response.kind # "ok"
                 /\ pc \notin {"END", "responded"})
          /\ (pc = "failed" =>
                 /\ failed_at # "none"
                 /\ response = [kind |-> "error", status_code |-> 500,
                                error |-> "generation_failed"])
          /\ (response.kind = "error" => pc = "failed"))
    /\ [][response.kind # "none" => response' = response]_vars

C12_Witness ==
    /\ pc = "failed"
    /\ failed_at = "translation"
    /\ state.final_content # <<>>
    /\ state.final_content = state.blog_content
    /\ response.kind = "error"
    /\ response.status_code = 500

\* ------------------------------------------------------ request validation
\* FastAPI validates the body against BlogGenerationRequest before it calls
\* generate_blog.
MinTopicLen == 3

MaxTopicLen == 500

MaxTranscriptLen == 50000

\* the text of n characters c
Text(n, c) == [i \in 1..n |-> c]

\* variant: min_length is not declared
ValidRequestNoMin(req) ==
    /\ req.topic # None
    /\ Len(req.topic) <= MaxTopicLen
    /\ (req.transcript # None => Len(req.transcript) <= MaxTranscriptLen)

\* the Field constraints of BlogGenerationRequest
ValidRequest(req) ==
    /\ req.topic # None
    /\ Len(req.topic) >= MinTopicLen
    /\ Len(req.topic) <= MaxTopicLen
    /\ (req.transcript # None => Len(req.transcript) <= MaxTranscriptLen)

\* request bodies: the valid ones of Requests, a topic of the maximal length,
\* and bodies with a missing, too short or too long topic or an oversized
\* transcript
HttpRequests ==
    Requests
    \cup [topic : {None, <<>>, Text(2, "a"), Text(MaxTopicLen, "a"),
                   Text(MaxTopicLen + 1, "a")},
          transcript : {None}, target_language : {None, <<"e">>},
          style : {"professional"}]
    \cup [topic : Topics, transcript : {Text(MaxTranscriptLen + 1, "s")},
          target_language : {None, <<"e">>}, style : {"professional"}]

\* no BlogState exists before generate_blog builds initial_state
NoState ==
    InitialState([topic |-> None, transcript |-> None,
                  target_language |-> None, style |-> ""])

\* the response FastAPI gives to a body that fails validation
ValidationError == [kind |-> "error", status_code |-> 422, error |-> "validation"]

InitHttp ==
    /\ request \in HttpRequests
    /\ pc = "received"
    /\ state = NoState
    /\ titles = <<>>
    /\ used_fallback = FALSE
    /\ trans_response = None
    /\ llm_calls = 0
    /\ trace = <<>>
    /\ response = NoResponse
    /\ prompt = NoPrompt
    /\ failed_at = "none"
    /\ llm = NoMock
    /\ prompts = <<>>
    /\ ServerStarted

\* the body is valid: generate_blog is entered and builds initial_state
AcceptRequest ==
    /\ pc = "received"
    /\ ValidRequest(request)
    /\ state' = InitialState(request)
    /\ pc' = "START"
    /\ UNCHANGED <<request, titles, used_fallback, trans_response, llm_calls,
                   trace, response, prompt, failed_at>>
    /\ UNCHANGED server
    /\ UNCHANGED calls

\* the body is invalid: 422 is returned and generate_blog is not entered
RejectRequest ==
    /\ pc = "received"
    /\ ~ValidRequest(request)
    /\ response' = ValidationError
    /\ pc' = "rejected"
    /\ UNCHANGED <<request, state, titles, used_fallback, trans_response,
                   llm_calls, trace, prompt, failed_at>>
    /\ UNCHANGED server
    /\ UNCHANGED calls

NextHttp ==
    \/ AcceptRequest
    \/ RejectRequest
    \/ Next

SpecHttp == InitHttp /\ [][NextHttp]_vars

\* C13: a request whose topic is missing, shorter than 3 or longer than 500
\* characters, or whose transcript is longer than 50000 characters, is rejected
\* before any step runs: the workflow is never invoked, no model call is
\* issued, and the outcome is a 422 error, not the 500 generation_failed error.
C13_InvalidRequestRejected ==
    (\/ request.topic = None
     \/ Len(request.topic) < 3
     \/ Len(request.topic) > 500
     \/ (request.transcript # None /\ Len(request.transcript) > 50000)) =>
        /\ pc \in {"received", "rejected"}
        /\ state = NoState
        /\ llm_calls = 0
        /\ trace = <<>>
        /\ prompt = NoPrompt
        /\ (pc = "rejected" =>
               /\ response.kind = "error"
               /\ response.status_code = 422
               /\ response.error # "generation_failed")

C13_Witness ==
    /\ pc = "rejected"
    /\ Len(request.topic) = 2
    /\ response.status_code = 422

\* ------------------------------------------- translation_agent called directly
\* The step applied to a state the graph did not produce, as the unit tests do.
DirectStates ==
    {[InitialState(r) EXCEPT !.blog_content = b, !.final_content = f,
                             !.translated_content = t] :
        r \in {q \in Requests : q.transcript = None},
        b \in {<<>>, <<"w">>, <<"w", " ", "w">>},
        f \in {<<>>, <<"w">>, <<"o">>},
        t \in {None, <<"o">>}}

InitDirect ==
    /\ state \in DirectStates
    /\ request = [topic |-> state.topic, transcript |-> state.transcript,
                  target_language |-> state.target_language,
                  style |-> state.style]
    /\ pc = "translation_agent"
    /\ titles = <<>>
    /\ used_fallback = FALSE
    /\ trans_response = None
    /\ llm_calls = 0
    /\ trace = <<>>
    /\ response = NoResponse
    /\ prompt = NoPrompt
    /\ failed_at = "none"
    /\ llm = NoMock
    /\ prompts = <<>>
    /\ ServerStarted

NextDirect ==
    \/ EnterTranslationAgent
    \/ Translation
    \/ LlmRaises

SpecDirect == InitDirect /\ [][NextDirect]_vars

\* C14: called directly on a state whose target_language is None, empty or
\* whitespace-only, the Translation step returns at once: no model call is
\* issued, no error is raised, translated_content is None and final_content
\* equals blog_content.
C14_DirectCallBlankIsNoOp ==
    (~NonBlank(state.target_language) /\ InSeq("translation_agent", trace)) =>
        /\ pc = "END"
        /\ llm_calls = 0
        /\ failed_at = "none"
    /\ llm = NoMock
    /\ prompts = <<>>
        /\ state.translated_content = None
        /\ state.final_content = state.blog_content

\* ------------------------------------------------- prompts of long transcripts
\* a transcript of n characters whose characters tell where they stand: "s" up
\* to title_agent's limit, "t" up to content_agent's limit, "u" beyond
LongTranscript(n) ==
    [i \in 1..n |->
        IF i <= TitleTranscriptLimit THEN "s"
        ELSE IF i <= ContentTranscriptLimit THEN "t" ELSE "u"]

TranscriptLengths ==
    {1, TitleTranscriptLimit - 1, TitleTranscriptLimit, TitleTranscriptLimit + 1,
     ContentTranscriptLimit - 1, ContentTranscriptLimit,
     ContentTranscriptLimit + 1, MaxTranscriptLen}

\* transcripts without text: empty and whitespace-only
BlankTranscripts == {<<>>, <<" ">>, <<" ", "\n">>}

\* valid requests without a transcript, with a blank one, and with transcripts
\* around the limits and of the maximal length
PromptRequests ==
    [topic : {<<"a", "b", "c">>},
     transcript : {None} \cup BlankTranscripts
                      \cup {LongTranscript(n) : n \in TranscriptLengths},
     target_language : {None},
     style : {"professional"}]

InitPrompt ==
    /\ request \in PromptRequests
    /\ pc = "START"
    /\ state = InitialState(request)
    /\ titles = <<>>
    /\ used_fallback = FALSE
    /\ trans_response = None
    /\ llm_calls = 0
    /\ trace = <<>>
    /\ response = NoResponse
    /\ prompt = NoPrompt
    /\ failed_at = "none"
    /\ llm = NoMock
    /\ prompts = <<>>
    /\ ServerStarted

\* the run up to the point where content_agent has issued its call
NextPrompt ==
    \/ Invoke
    \/ EnterTitleAgent
    \/ TitleGeneration
    \/ TitleSelection
    \/ EnterContentAgent

SpecPrompt == InitPrompt /\ [][NextPrompt]_vars

\* C15: the transcript text embedded in an instruction is cut to the step's
\* bound: it is the first min(length, bound) characters of the transcript, with
\* bound 2000 in the Title step's generation instruction and 5000 in the
\* Content step's instruction (so never more than the first 5000 characters);
\* the Title step's selection instruction embeds no transcript text.
C15_TranscriptTruncated ==
    /\ (prompt.template = "TITLE_GENERATION_PROMPT" =>
           /\ Len(prompt.transcript_section.transcript) <= 2000
           /\ IsPrefix(prompt.transcript_section.transcript, request.transcript))
    /\ (prompt.template = "CONTENT_GENERATION_PROMPT" =>
           /\ Len(prompt.transcript_section.transcript) <= 5000
           /\ IsPrefix(prompt.transcript_section.transcript, request.transcript))
    /\ (prompt.template = "TITLE_SELECTION_PROMPT" =>
           "transcript_section" \notin DOMAIN prompt)

C15_Witness ==
    /\ prompt.template = "CONTENT_GENERATION_PROMPT"
    /\ Len(request.transcript) = 50000
    /\ Len(prompt.transcript_section.transcript) = 5000
    /\ prompt.transcript_section.transcript[5000] = "t"

\* ------------------------------------------------------ frame of the steps
CallerFields == {"topic", "transcript", "target_language", "style"}

\* the fields on which two states differ
Changed(st1, st2) == {f \in DOMAIN st1 : st1[f] # st2[f]}

\* C17: a transition that changes the state is the merge of one step's patch
\* and changes only that step's fields (Title: brainstormed_titles and
\* selected_title; Content: blog_content, word_count and final_content;
\* Translation: translated_content and final_content); the caller-supplied
\* fields topic, transcript, target_language and style keep the values of the
\* initial state throughout, so also in the final state.
C17_PatchOverwritesOnlyItsFields ==
    /\ [](\A f \in CallerFields : state[f] = request[f])
    /\ [][/\ DOMAIN state' = DOMAIN state
          /\ state' # state =>
               \/ /\ pc = "title_selection"
                  /\ Changed(state, state') \subseteq
                         {"brainstormed_titles", "selected_title"}
               \/ /\ pc = "content_generation"
                  /\ Changed(state, state') \subseteq
                         {"blog_content", "word_count", "final_content"}
               \/ /\ pc \in {"translation_agent", "translation"}
                  /\ Changed(state, state') \subseteq
                         {"translated_content", "final_content"}]_vars

C17_Witness ==
    /\ pc = "END"
    /\ TranslationRan
    /\ state.transcript # None
    /\ state.style = "casual"
    /\ state.target_language = <<"e">>
    /\ state.translated_content # <<>>
    /\ state.final_content # state.blog_content
    /\ state.word_count = 2
    /\ Len(state.brainstormed_titles) = 2

\* C18: translated_content is present only if the Translation step has run
\* in this run and target_language is non-blank; a run that skipped
\* translation reaches the terminal point with translated_content absent.
C18_TranslatedOnlyIfTranslationRan ==
    /\ state.translated_content # None =>
           /\ InSeq("translation_agent:merged", trace)
           /\ NonBlank(request.target_language)
    /\ (AtEnd /\ ~TranslationRan) => state.translated_content = None

C18_Witness ==
    /\ pc = "END"
    /\ InSeq("translation_agent:merged", trace)
    /\ state.translated_content # None
    /\ state.translated_content # <<>>
    /\ state.blog_content # <<>>

\* C19: a completed request's response carries the final state field by
\* field (title, content, word_count, brainstormed_titles in order) and the
\* request's target_language unchanged, also when nothing was translated.
C19_ResponseFieldByField ==
    pc = "responded" =>
        /\ response.kind = "ok"
        /\ response.title = state.selected_title
        /\ response.content = state.final_content
        /\ response.word_count = state.word_count
        /\ response.brainstormed_titles = state.brainstormed_titles
        /\ response.target_language = request.target_language

C19_Witness ==
    /\ pc = "responded"
    /\ request.target_language = <<" ">>
    /\ response.target_language = <<" ">>
    /\ ~TranslationRan
    /\ Len(response.brainstormed_titles) = 2
    /\ response.brainstormed_titles[1] # response.brainstormed_titles[2]
    /\ response.title = response.brainstormed_titles[2]
    /\ response.word_count = 2

\* C20: once the Title step has completed, brainstormed_titles has at least
\* one entry, no entry is the empty text, and selected_title is not empty.
C20_TitlesNonEmpty ==
    TitleDone =>
        /\ Len(state.brainstormed_titles) >= 1
        /\ \A i \in 1..Len(state.brainstormed_titles) :
               state.brainstormed_titles[i] # <<>>
        /\ state.selected_title # <<>>

C20_Witness ==
    /\ pc = "content_agent"
    /\ ~used_fallback
    /\ Len(state.brainstormed_titles) = 2
    /\ state.selected_title = state.brainstormed_titles[2]
    /\ state.selected_title # state.brainstormed_titles[1]

\* ------------------------------------------------------ concurrent requests
\* Several requests are handled at once by one server process. They share
\* get_workflow's cache and the graph it holds; every workflow.invoke works
\* on a state instance of its own. Steps of different requests interleave at
\* the model calls.
ConcRequests ==
    {r \in Requests :
        /\ r.target_language \in {None, <<"e">>}
        /\ (r.target_language = None) <=> (r.transcript = None)}

ConcGenResponses == {<<"a">>, <<"1", ".", "a", "\n", "2", ".", "b">>}

ConcSelResponses == {<<"b">>}

ConcContentResponses == {<<"w">>, <<"w", " ", "w">>}

ConcTransResponses == {<<"v", " ", "v">>}

\* variant: the graph keeps the state, every invocation works on the same cell
StateCellShared(id) == 0

\* the state instance of request id's invocation: the initial_state dict
\* generate_blog builds for this call
StateCell(id) == id

\* the request arrives and FastAPI resolves Depends(get_workflow): a cache
\* hit returns the cached graph, a miss goes on to create_workflow
Arrive(id) ==
    /\ runs[id].pc = "idle"
    /\ \E req \in ConcRequests :
         runs' = [runs EXCEPT ![id].request = req,
                              ![id].workflow = cache,
                              ![id].pc = IF cache = 0 THEN "create_workflow"
                                         ELSE "generate_blog"]
    /\ UNCHANGED <<pc, request, state, titles, used_fallback, trans_response,
                   llm_calls, trace, response, prompt, failed_at,
                   cache, created, cells>>
    /\ UNCHANGED calls

\* create_workflow returns; lru_cache stores the result unless the key was
\* added meanwhile, and returns the result just computed
CreateWorkflow(id) ==
    /\ runs[id].pc = "create_workflow"
    /\ created' = created + 1
    /\ cache' = IF cache = 0 THEN created' ELSE cache
    /\ runs' = [runs EXCEPT ![id].workflow = created',
                            ![id].pc = "generate_blog"]
    /\ UNCHANGED <<pc, request, state, titles, used_fallback, trans_response,
                   llm_calls, trace, response, prompt, failed_at, cells>>
    /\ UNCHANGED calls

\* generate_blog builds initial_state and calls workflow.invoke; title_agent
\* issues the generation call
RunInvoke(id) ==
    /\ runs[id].pc = "generate_blog"
    /\ cells' = (StateCell(id) :> InitialState(runs[id].request)) @@ cells
    /\ runs' = [runs EXCEPT ![id].pc = "title_generation"]
    /\ UNCHANGED <<pc, request, state, titles, used_fallback, trans_response,
                   llm_calls, trace, response, prompt, failed_at,
                   cache, created>>
    /\ UNCHANGED calls

\* the generation call of request id returns
RunTitleGeneration(id) ==
    /\ runs[id].pc = "title_generation"
    /\ \E content \in ConcGenResponses :
         runs' = [runs EXCEPT
                    ![id].titles =
                        BrainstormTitles(content, cells[StateCell(id)].topic),
                    ![id].log = Append(@, content),
                    ![id].pc = "title_selection"]
    /\ UNCHANGED <<pc, request, state, titles, used_fallback, trans_response,
                   llm_calls, trace, response, prompt, failed_at,
                   cache, created, cells>>
    /\ UNCHANGED calls

\* the selection call returns; title_agent's patch is merged and content_agent
\* issues its call
RunTitleSelection(id) ==
    /\ runs[id].pc = "title_selection"
    /\ \E content \in ConcSelResponses :
         /\ cells' = [cells EXCEPT ![StateCell(id)] =
                         Merge(@, TitlePatch(runs[id].titles, content))]
         /\ runs' = [runs EXCEPT ![id].log = Append(@, content),
                                 ![id].titles = <<>>,
                                 ![id].pc = "content_generation"]
    /\ UNCHANGED <<pc, request, state, titles, used_fallback, trans_response,
                   llm_calls, trace, response, prompt, failed_at,
                   cache, created>>
    /\ UNCHANGED calls

\* the content call returns; the patch is merged and the router decides on
\* the merged state; translation_agent, if chosen, passes its safety check
\* and issues its call
RunContentGeneration(id) ==
    /\ runs[id].pc = "content_generation"
    /\ \E content \in ConcContentResponses :
         LET merged == Merge(cells[StateCell(id)], ContentPatch(content))
             target == RouteTarget(should_translate(merged))
             guarded == target = "translation_agent" /\ TranslationGuard(merged)
         IN  /\ cells' = [cells EXCEPT ![StateCell(id)] =
                             IF guarded THEN Merge(merged, GuardPatch(merged))
                             ELSE merged]
             /\ runs' = [runs EXCEPT
                           ![id].log = Append(@, content),
                           ![id].pc = IF target = "translation_agent" /\ ~guarded
                                      THEN "translation" ELSE "END"]
    /\ UNCHANGED <<pc, request, state, titles, used_fallback, trans_response,
                   llm_calls, trace, response, prompt, failed_at,
                   cache, created>>
    /\ UNCHANGED calls

\* the translation call returns; translation_agent's patch is merged
RunTranslation(id) ==
    /\ runs[id].pc = "translation"
    /\ \E content \in ConcTransResponses :
         /\ cells' = [cells EXCEPT ![StateCell(id)] =
                         Merge(@, TranslationPatch(content))]
         /\ runs' = [runs EXCEPT ![id].log = Append(@, content),
                                 ![id].pc = Edge("translation_agent")]
    /\ UNCHANGED <<pc, request, state, titles, used_fallback, trans_response,
                   llm_calls, trace, response, prompt, failed_at,
                   cache, created>>
    /\ UNCHANGED calls

\* workflow.invoke returns the final state; generate_blog builds the response
RunRespond(id) ==
    /\ runs[id].pc = "END"
    /\ runs' = [runs EXCEPT
                  ![id].response =
                      BuildResponse(cells[StateCell(id)], runs[id].request),
                  ![id].pc = "responded"]
    /\ UNCHANGED <<pc, request, state, titles, used_fallback, trans_response,
                   llm_calls, trace, response, prompt, failed_at,
                   cache, created, cells>>
    /\ UNCHANGED calls

InitConc ==
    /\ pc = "idle"
    /\ request = NoRequest
    /\ state = InitialState(NoRequest)
    /\ titles = <<>>
    /\ used_fallback = FALSE
    /\ trans_response = None
    /\ llm_calls = 0
    /\ trace = <<>>
    /\ response = NoResponse
    /\ prompt = NoPrompt
    /\ failed_at = "none"
    /\ llm = NoMock
    /\ prompts = <<>>
    /\ ServerStarted

NextConc ==
    \E id \in RunIds :
        \/ Arrive(id)
        \/ CreateWorkflow(id)
        \/ RunInvoke(id)
        \/ RunTitleGeneration(id)
        \/ RunTitleSelection(id)
        \/ RunContentGeneration(id)
        \/ RunTranslation(id)
        \/ RunRespond(id)

SpecConc == InitConc /\ [][NextConc]_vars

\* the state a run has after the given responses to its own calls, in the
\* order generation, selection, content, translation
OwnState(req, log) ==
    LET s0 == InitialState(req)
        s1 == IF Len(log) >= 2
              THEN Merge(s0, TitlePatch(BrainstormTitles(log[1], req.topic), log[2]))
              ELSE s0
        s2 == IF Len(log) >= 3 THEN Merge(s1, ContentPatch(log[3])) ELSE s1
    IN  IF Len(log) >= 4 THEN Merge(s2, TranslationPatch(log[4])) ELSE s2

\* request id has a state instance
Invoked(id) == runs[id].pc \notin {"idle", "create_workflow", "generate_blog"}

\* C16: under every interleaving of concurrent requests, the state a request
\* works on is at every moment the one determined by its own initial state
\* and the responses to its own model calls, and so are its final state and
\* its response; nothing another request wrote shows in it.
C16_ConcurrentRequestsIndependent ==
    \A id \in RunIds :
        /\ Invoked(id) =>
               /\ StateCell(id) \in DOMAIN cells
               /\ cells[StateCell(id)] = OwnState(runs[id].request, runs[id].log)
        /\ runs[id].pc = "responded" =>
               runs[id].response =
                   BuildResponse(OwnState(runs[id].request, runs[id].log),
                                 runs[id].request)

\* two requests sharing one graph instance are in flight; the first was
\* translated, the second is between its calls, and their states differ
C16_Witness ==
    /\ runs[1].pc = "END"
    /\ runs[2].pc = "content_generation"
    /\ runs[1].workflow = runs[2].workflow
    /\ runs[1].request # runs[2].request
    /\ Len(runs[1].log) = 4
    /\ cells[1].translated_content # None
    /\ cells[2].translated_content = None
    /\ cells[1].selected_title # cells[2].selected_title

\* C21: once the Content step has completed, blog_content is non-empty and
\* word_count is greater than 0, whatever text the content call returned.
C21_ContentNonEmpty ==
    InSeq("content_agent:merged", trace) =>
        /\ state.blog_content # <<>>
        /\ state.word_count > 0

\* ------------------------------------------ title_agent with a mocked client
\* title_agent called on a state of its own, as the agent tests do, with a
\* client whose answer to one of the two calls is preset.
MockedClients ==
    {[generation |-> c] : c \in GenResponses}
        \cup {[selection |-> c] : c \in SelResponses}

InitTitleAgent ==
    /\ request \in {r \in Requests : r.target_language = None}
    /\ llm \in MockedClients
    /\ pc = "title_agent"
    /\ state = InitialState(request)
    /\ titles = <<>>
    /\ used_fallback = FALSE
    /\ trans_response = None
    /\ llm_calls = 0
    /\ trace = <<>>
    /\ response = NoResponse
    /\ prompt = NoPrompt
    /\ failed_at = "none"
    /\ prompts = <<>>
    /\ ServerStarted

NextTitleAgent ==
    \/ EnterTitleAgent
    \/ TitleGeneration
    \/ TitleSelection

SpecTitleAgent == InitTitleAgent /\ [][NextTitleAgent]_vars

\* the text s without its leading and trailing whitespace
Trimmed(s) ==
    CHOOSE t \in {SubSeq(s, i, j) : i \in 1..(Len(s) + 1), j \in 0..Len(s)} :
        IsTrimOf(t, s)

\* the number of digits line starts with
LeadingDigits(line) ==
    Cardinality({k \in 1..Len(line) : \A i \in 1..k : IsDigit(line[i])})

\* line starts with a numbering marker: digits followed by "." or ")"
HasMarker(line) ==
    /\ LeadingDigits(line) >= 1
    /\ LeadingDigits(line) < Len(line)
    /\ line[LeadingDigits(line) + 1] \in {".", ")"}

\* line with only its leading numbering marker removed
Unnumbered(line) ==
    IF HasMarker(line)
    THEN Trimmed(SubSeq(line, LeadingDigits(line) + 2, Len(line)))
    ELSE line

\* the candidates the lines stand for, in order: one per line that begins with
\* a digit and has text left once its marker is removed
RECURSIVE Candidates(_)
Candidates(lines) ==
    IF lines = <<>> THEN <<>>
    ELSE LET line == Trimmed(Head(lines))
             kept == line # <<>> /\ IsDigit(line[1]) /\ Unnumbered(line) # <<>>
         IN  (IF kept THEN <<Unnumbered(line)>> ELSE <<>>)
                 \o Candidates(Tail(lines))

\* C22: the candidates parsed from the generation response are exactly its
\* lines that begin with a digit, in order, each with only its leading "N."
\* or "N)" marker removed (later '.' and ')' are kept); other lines give no
\* candidate. The fallback title is used only when there is no such line.
C22_ParseKeepsDigitLines ==
    (pc = "title_selection" /\ "generation" \in DOMAIN llm) =>
        LET expected == Candidates(SplitOn(llm.generation, "\n"))
        IN  /\ expected # <<>> => (titles = expected /\ ~used_fallback)
            /\ expected = <<>> => used_fallback

\* C23: selected_title is the selection call's trimmed response when that
\* text is one of the candidates and the first candidate in every other case;
\* the step completes either way, no error is raised for a mismatch.
C23_SelectionOrFirstCandidate ==
    (TitleDone /\ "selection" \in DOMAIN llm) =>
        /\ state.selected_title =
              (IF InSeq(Trimmed(llm.selection), state.brainstormed_titles)
               THEN Trimmed(llm.selection)
               ELSE state.brainstormed_titles[1])
        /\ failed_at = "none"
        /\ pc # "raised"

C23_Witness ==
    /\ TitleDone
    /\ "selection" \in DOMAIN llm
    /\ Trimmed(llm.selection) # llm.selection
    /\ state.selected_title = Trimmed(llm.selection)
    /\ state.selected_title # state.brainstormed_titles[1]

\* a selection that matches no candidate was replaced by the first candidate
C23_WitnessMismatch ==
    /\ TitleDone
    /\ "selection" \in DOMAIN llm
    /\ Trimmed(llm.selection) # <<>>
    /\ ~InSeq(Trimmed(llm.selection), state.brainstormed_titles)
    /\ Len(state.brainstormed_titles) = 2
    /\ state.selected_title = state.brainstormed_titles[1]

\* the points at which a model call is awaited
Awaiting == {"title_generation", "title_selection", "content_generation",
             "translation"}

\* the templates of the instructions issued so far, in order
Templates == [i \in 1..Len(prompts) |-> prompts[i].template]

\* C24: a completed Title step has issued exactly two calls (generation, then
\* selection, also when the fallback title is the only candidate), a
\* completed Content step one more and a Translation step one more; a
\* completed run has issued exactly 3 calls when translation was skipped and
\* 4 when it was taken; a call is issued only when none is awaited, or on the
\* return of the call before it.
C24_CallsPerStep ==
    /\ [](/\ Len(prompts) = llm_calls
          /\ IsPrefix(Templates,
                      <<"TITLE_GENERATION_PROMPT", "TITLE_SELECTION_PROMPT",
                        "CONTENT_GENERATION_PROMPT", "TRANSLATION_PROMPT">>)
          /\ (pc = "content_agent" => llm_calls = 2)
          /\ (pc = "should_translate" => llm_calls = 3)
          /\ (AtEnd => llm_calls = (IF TranslationRan THEN 4 ELSE 3))
          /\ (AtEnd /\ NonBlank(request.target_language) => llm_calls = 4))
    /\ [][llm_calls' # llm_calls =>
             /\ llm_calls' = llm_calls + 1
             /\ \/ pc \notin Awaiting
                \/ pc = "title_generation" /\ pc' = "title_selection"]_vars

C24_Witness ==
    /\ pc = "END"
    /\ used_fallback
    /\ Len(state.brainstormed_titles) = 1
    /\ llm_calls = 4
    /\ Len(prompts) = 4

\* C25: when the Translation step returns at its guard (no call issued),
\* final_content has after the merge the value it had before the step, also
\* when that value differs from blog_content.
C25_GuardLeavesFinalContent ==
    [][(pc = "translation_agent" /\ pc' = "END" /\ llm_calls' = llm_calls) =>
           state'.final_content = state.final_content]_vars

\* C25 as amended: when the Translation step returns at its guard (no call
\* issued), the merged state has translated_content absent and final_content
\* equal to blog_content, whatever final_content was before; final_content
\* keeps its value exactly when it already equalled blog_content.
C25_GuardSetsFinalToBlogContent ==
    [][(pc = "translation_agent" /\ pc' = "END" /\ llm_calls' = llm_calls) =>
           /\ state'.translated_content = None
           /\ state'.final_content = state.blog_content
           /\ state'.blog_content = state.blog_content
           /\ (state'.final_content = state.final_content
                  <=> state.final_content = state.blog_content)]_vars

C25_Witness ==
    /\ pc = "END"
    /\ llm_calls = 0
    /\ InSeq("translation_agent:merged", trace)
    /\ state.target_language = None
    /\ state.translated_content = None
    /\ state.blog_content = <<"w", " ", "w">>
    /\ state.final_content = state.blog_content

\* C26: in a run of the graph the Translation step is entered only with a
\* target_language that is non-empty after trimming, so it never returns at
\* its guard: once entered it has issued its call.
C26_GuardUnreachableFromGraph ==
    /\ (pc \in {"translation_agent", "translation"} \/ TranslationRan) =>
           /\ NonBlank(state.target_language)
           /\ trace[5] = "translate"
    /\ TranslationRan =>
           /\ Len(prompts) = 4
           /\ prompts[4].template = "TRANSLATION_PROMPT"
           /\ prompts[4].target_language = request.target_language

C26_Witness ==
    /\ pc = "translation_agent"
    /\ state.target_language = <<"e">>
    /\ state.blog_content # <<>>
    /\ ~TranslationRan
    /\ Len(prompts) = 3

\* ---------------------------------------------------------------- progress
\* Every model call eventually returns or raises and the handler goes on
\* whenever it can: some enabled step is eventually taken.
SpecLive == Init /\ [][Next]_vars /\ WF_vars(Next)

\* the step executions begun so far
StepsBegun ==
    Cardinality({i \in 1..Len(trace) :
        trace[i] \in {"title_agent", "content_agent", "translation_agent"}})

\* the run is over: the graph reached END or a call raised
RunOver == AtEnd \/ pc \in {"raised", "failed"}

\* C27: every run eventually terminates, by reaching END with a final state
\* or by failing, and stays terminated; no run executes more than three steps.
C27_RunTerminates ==
    /\ <>[]RunOver
    /\ [](StepsBegun <= 3)
    /\ [](AtEnd => state.final_content = (IF TranslationRan
                                          THEN state.translated_content
                                          ELSE state.blog_content))

C27_Witness ==
    /\ pc = "responded"
    /\ StepsBegun = 3
    /\ llm_calls = 4
    /\ state.final_content # <<>>

\* the requests that hold a graph
HoldGraph == {id \in RunIds : runs[id].workflow # 0}

\* C28: create_workflow is executed at most once, and all requests receive
\* the same graph instance, also when several first requests arrive together.
C28_WorkflowCreatedOnce ==
    /\ created <= 1
    /\ \A i, j \in HoldGraph : runs[i].workflow = runs[j].workflow

\* C29: within one run the Title step embeds transcript text in its
\* generation instruction exactly when the Content step uses the
\* with-transcript variant of its instruction, for every transcript value
\* (None, empty, whitespace-only, non-blank).
C29_StepsAgreeOnTranscript ==
    Len(prompts) >= 3 =>
        (prompts[1].transcript_section.variant = "SOURCE TRANSCRIPT"
            <=> prompts[3].transcript_section.variant
                    = "CONTENT_WITH_TRANSCRIPT_SECTION")

====
